---- MODULE Spec2Model ----
(***************************************************************************)
(* Model of folder_synchronizer.py: the one-way mirroring of a source      *)
(* folder into a replica folder (synchronize) and its driver (main).       *)
(*                                                                         *)
(* The file system is one function from the paths that exist to what is    *)
(* there: "dir" for a directory, the bytes for a regular file.  A path is  *)
(* the sequence of its segments; the first segment is the root folder      *)
(* given on the command line ("source" or "replica"), which are taken to   *)
(* be two disjoint folders whose parents exist.                            *)
(*                                                                         *)
(* Spec is the program alone: nothing else touches the two folders.  In    *)
(* SpecInterrupted the process may also be interrupted in the middle of a  *)
(* pass and started again (rerun); in SpecEdited another program may also  *)
(* edit the folders while the polling loop sleeps (edited).                *)
(***************************************************************************)
EXTENDS Integers, Sequences, FiniteSets, TLC

\* Bounds of the model.
MaxEntries == 3   \* entries below the two roots, both trees together, at start
MaxPasses == 2    \* passes of the polling loop that are followed

Names == {"a", "b"}
Contents == {"hello", "world"}
PollIntervals == {0, 5}

source_folder == <<"source">>
replica_folder == <<"replica">>

VARIABLES fs, poll_interval, pc, stack, log, muts, passes, pass_start, fs0,
          rerun, edited

vars == <<fs, poll_interval, pc, stack, log, muts, passes, pass_start, fs0,
          rerun, edited>>

----------------------------------------------------------------------------
\* pathlib and shutil, as far as the program uses them.

\* path / name
Join(path, name) == Append(path, name)

Parent(path) == SubSeq(path, 1, Len(path) - 1)

IsUnder(path, top) ==
    /\ Len(path) >= Len(top)
    /\ SubSeq(path, 1, Len(top)) = top

\* Path.exists(): a path below a regular file does not exist.
Exists(f, path) == path \in DOMAIN f

\* Path.is_dir()
IsDir(f, path) == Exists(f, path) /\ f[path] = "dir"

\* Path.glob('*'): the immediate children; nothing when path is no directory.
Glob(f, path) ==
    IF IsDir(f, path)
        THEN {q \in DOMAIN f : Len(q) = Len(path) + 1 /\ Parent(q) = path}
        ELSE {}

\* set(object.name for object in objects)
NameSet(objects) == {q[Len(q)] : q \in objects}

Restrict(f, paths) == [q \in paths |-> f[q]]

\* shutil.rmtree(path)
RmTree(f, path) == Restrict(f, {q \in DOMAIN f : ~IsUnder(q, path)})

\* Path.unlink()
Unlink(f, path) == Restrict(f, DOMAIN f \ {path})

\* Path.mkdir() succeeds when the path is free and its parent is a directory.
\* The parent of a root folder is outside the model and taken to exist.
MkdirOk(f, path) ==
    /\ ~Exists(f, path)
    /\ Len(path) > 1 => IsDir(f, Parent(path))

Mkdir(f, path) ==
    [q \in DOMAIN f \cup {path} |-> IF q = path THEN "dir" ELSE f[q]]

\* Path.read_bytes() succeeds on a regular file.
ReadOk(f, path) == Exists(f, path) /\ ~IsDir(f, path)

\* shutil.copy(src, dst): into dst when dst is a directory, else onto dst.
CopyTarget(f, src, dst) ==
    IF IsDir(f, dst) THEN Join(dst, src[Len(src)]) ELSE dst

CopyOk(f, src, dst) ==
    /\ ReadOk(f, src)
    /\ ~IsDir(f, CopyTarget(f, src, dst))
    /\ IsDir(f, Parent(CopyTarget(f, src, dst)))

Copy(f, src, dst) ==
    [q \in DOMAIN f \cup {CopyTarget(f, src, dst)} |->
        IF q = CopyTarget(f, src, dst) THEN f[src] ELSE f[q]]

\* Faulty variant: the digest object is never fed the bytes, so every file
\* has the digest of the empty input.
Md5Unfed(bytes) == "d41d8cd98f00b204e9800998ecf8427e"

\* hashlib.md5(bytes).hexdigest()
Md5(bytes) ==
    CASE bytes = "hello" -> "5d41402abc4b2a76b9719d911017c592"
      [] bytes = "world" -> "7d793037a0760186574b0282f2f435e7"

----------------------------------------------------------------------------
\* The folders the program may be started on.

Merge(f, g) ==
    [q \in DOMAIN f \cup DOMAIN g |-> IF q \in DOMAIN f THEN f[q] ELSE g[q]]

Single(path, entry) == [q \in {path} |-> entry]

NoFile == [q \in {} |-> "dir"]

\* The ways to add one entry to a tree: under one of its directories.
Grow(t) ==
    {Merge(t, Single(Join(d, n), e)) :
        <<d, n, e>> \in {x \in (DOMAIN t) \X Names \X (Contents \cup {"dir"}) :
                            /\ t[x[1]] = "dir"
                            /\ Join(x[1], x[2]) \notin DOMAIN t}}

\* The directory trees at root with at most k entries below the root.
RECURSIVE Trees(_, _)
Trees(root, k) ==
    IF k = 0
        THEN {Single(root, "dir")}
        ELSE Trees(root, k - 1) \cup UNION {Grow(t) : t \in Trees(root, k - 1)}

\* A root folder is missing, a regular file, or a directory tree.
Folders(root, k) ==
    {NoFile} \cup {Single(root, c) : c \in Contents} \cup Trees(root, k)

Size(t) == Cardinality(DOMAIN t)

InitialFileSystems ==
    {Merge(s, r) :
        <<s, r>> \in {x \in Folders(source_folder, MaxEntries)
                              \X Folders(replica_folder, MaxEntries) :
                         Size(x[1]) + Size(x[2]) <= MaxEntries + 2}}

----------------------------------------------------------------------------
\* Events handed to the logger and the record of performed mutations.

Event(ev, path) == [ev |-> ev, path |-> path]

Mutation(op, path) == [op |-> op, path |-> path, pass |-> passes]

Frame(source_path, replica_path) ==
    [source_path |-> source_path,
     replica_path |-> replica_path,
     phase |-> "enter",
     distinct_objects_set |-> {},
     source_objects |-> {}]

Top == stack[Len(stack)]

SetTop(frame) == [stack EXCEPT ![Len(stack)] = frame]

Pop == SubSeq(stack, 1, Len(stack) - 1)

Init ==
    /\ fs \in InitialFileSystems
    /\ poll_interval \in PollIntervals
    /\ pc = "CheckSource"
    /\ stack = <<>>
    /\ log = <<>>
    /\ muts = <<>>
    /\ passes = 0
    /\ pass_start = 0
    /\ fs0 = fs
    /\ rerun = FALSE
    /\ edited = FALSE

----------------------------------------------------------------------------
\* main

\* Lines 113-115: assert source_path.exists().
CheckSource ==
    /\ pc = "CheckSource"
    /\ pc' = IF Exists(fs, source_folder) THEN "CheckReplica" ELSE "Fatal"
    /\ UNCHANGED <<fs, poll_interval, stack, log, muts, passes, pass_start, fs0, rerun, edited>>

\* Lines 117-120: create the replica folder when it is missing; nothing is
\* logged.
CheckReplica ==
    /\ pc = "CheckReplica"
    /\ IF ~Exists(fs, replica_folder)
          THEN /\ fs' = Mkdir(fs, replica_folder)
               /\ muts' = Append(muts, Mutation("mkdir", replica_folder))
          ELSE UNCHANGED <<fs, muts>>
    /\ pc' = "CheckPoll"
    /\ UNCHANGED <<poll_interval, stack, log, passes, pass_start, fs0, rerun, edited>>

\* The call synchronize(source_path, replica_path, logger) of lines 125, 129.
CallSynchronize ==
    /\ stack' = <<Frame(source_folder, replica_folder)>>
    /\ passes' = passes + 1
    /\ pass_start' = Len(log)
    /\ fs0' = fs
    /\ pc' = "Syncing"

\* Lines 122-129: the first pass, in either mode.
FirstPass ==
    /\ pc = "CheckPoll"
    /\ CallSynchronize
    /\ UNCHANGED <<fs, poll_interval, log, muts, rerun, edited>>

\* Faulty variant: the single pass falls into the sleep of the loop.
FinishIntoSleep ==
    /\ pc = "Syncing"
    /\ stack = <<>>
    /\ poll_interval = 0
    /\ log' = Append(log, Event("Entering sleep", <<>>))
    /\ pc' = "Sleeping"
    /\ UNCHANGED <<fs, poll_interval, stack, muts, passes, pass_start, fs0, rerun, edited>>

\* Line 125 returned: the single pass is over and main returns.
Finish ==
    /\ pc = "Syncing"
    /\ stack = <<>>
    /\ poll_interval = 0
    /\ pc' = "Done"
    /\ UNCHANGED <<fs, poll_interval, stack, log, muts, passes, pass_start, fs0, rerun, edited>>

\* Faulty variant: the loop goes to sleep without logging it.
EnterSleepSilent ==
    /\ pc = "Syncing"
    /\ stack = <<>>
    /\ poll_interval # 0
    /\ pc' = "Sleeping"
    /\ UNCHANGED <<fs, poll_interval, stack, log, muts, passes, pass_start, fs0, rerun, edited>>

\* Lines 131-133: the pass of the loop returned; log and go to sleep.
EnterSleep ==
    /\ pc = "Syncing"
    /\ stack = <<>>
    /\ poll_interval # 0
    /\ log' = Append(log, Event("Entering sleep", <<>>))
    /\ pc' = "Sleeping"
    /\ UNCHANGED <<fs, poll_interval, stack, muts, passes, pass_start, fs0, rerun, edited>>

\* Lines 127-129: time.sleep returned; the next pass of the loop.
Wake ==
    /\ pc = "Sleeping"
    /\ passes < MaxPasses
    /\ CallSynchronize
    /\ UNCHANGED <<fs, poll_interval, log, muts, rerun, edited>>

----------------------------------------------------------------------------
\* synchronize

\* Faulty variant: the union (|) in place of the symmetric difference.
all_objects_set(source_objects_set, replica_objects_set) ==
    source_objects_set \cup replica_objects_set

\* Faulty variant: the difference (-) in place of the symmetric difference.
source_only_objects_set(source_objects_set, replica_objects_set) ==
    source_objects_set \ replica_objects_set

\* Line 33: source_objects_set ^ replica_objects_set
distinct_objects_set(source_objects_set, replica_objects_set) ==
    (source_objects_set \ replica_objects_set)
        \cup (replica_objects_set \ source_objects_set)

\* Faulty variant: the record is written for the root pair only.
CheckingAtRootOnly(frame) ==
    IF frame.replica_path = replica_folder
        THEN <<Event("Checking", frame.replica_path)>>
        ELSE <<>>

\* Line 25: one 'Checking ... to reflect ...' record per invocation.
CheckingEvents(frame) == <<Event("Checking", frame.replica_path)>>

\* Lines 25-33: log, list both folders, take the names on one side only.
SyncEnter ==
    /\ pc = "Syncing"
    /\ stack # <<>>
    /\ Top.phase = "enter"
    /\ log' = log \o CheckingEvents(Top)
    /\ stack' = SetTop([Top EXCEPT
            !.phase = "remove",
            !.distinct_objects_set =
                distinct_objects_set(NameSet(Glob(fs, Top.source_path)),
                                     NameSet(Glob(fs, Top.replica_path)))])
    /\ UNCHANGED <<fs, poll_interval, pc, muts, passes, pass_start, fs0, rerun, edited>>

\* Faulty variant: the object to remove is looked up under the source folder.
old_object_in_source(frame, distinct_object) ==
    Join(frame.source_path, distinct_object)

\* Line 40
old_object_path(frame, distinct_object) ==
    Join(frame.replica_path, distinct_object)

\* Lines 39-50: one iteration of the removal loop, in the set's order.
SyncRemove ==
    /\ pc = "Syncing"
    /\ stack # <<>>
    /\ Top.phase = "remove"
    /\ \E distinct_object \in Top.distinct_objects_set :
        LET old == old_object_path(Top, distinct_object) IN
        /\ IF Exists(fs, old)
              THEN /\ log' = Append(log, Event("Removing", old))
                   /\ IF IsDir(fs, old)
                         THEN /\ fs' = RmTree(fs, old)
                              /\ muts' = Append(muts, Mutation("rmtree", old))
                         ELSE /\ fs' = Unlink(fs, old)
                              /\ muts' = Append(muts, Mutation("unlink", old))
              ELSE UNCHANGED <<fs, log, muts>>
        /\ stack' = SetTop([Top EXCEPT !.distinct_objects_set = @ \ {distinct_object}])
    /\ UNCHANGED <<poll_interval, pc, passes, pass_start, fs0, rerun, edited>>

\* Faulty variant: the two loops are merged; the source folder is listed and
\* objects are synchronized while names are still waiting to be removed.
SyncListMerged ==
    /\ pc = "Syncing"
    /\ stack # <<>>
    /\ \/ /\ Top.phase = "remove"
          /\ stack' = SetTop([Top EXCEPT
                  !.phase = "sync",
                  !.source_objects = NameSet(Glob(fs, Top.source_path))])
          /\ UNCHANGED <<fs, log, muts>>
       \/ /\ Top.phase = "sync"
          /\ \E distinct_object \in Top.distinct_objects_set :
              LET old == Join(Top.replica_path, distinct_object) IN
              /\ Exists(fs, old)
              /\ log' = Append(log, Event("Removing", old))
              /\ fs' = RmTree(fs, old)
              /\ muts' = Append(muts, Mutation("rmtree", old))
              /\ stack' = SetTop([Top EXCEPT
                      !.distinct_objects_set = @ \ {distinct_object}])
    /\ UNCHANGED <<poll_interval, pc, passes, pass_start, fs0, rerun, edited>>

\* Lines 36, 53: the generator of line 36 lists the source folder when the
\* loop of line 53 asks for its first item, after the removals.
SyncList ==
    /\ pc = "Syncing"
    /\ stack # <<>>
    /\ Top.phase = "remove"
    /\ Top.distinct_objects_set = {}
    /\ stack' = SetTop([Top EXCEPT
            !.phase = "sync",
            !.source_objects = NameSet(Glob(fs, Top.source_path))])
    /\ UNCHANGED <<fs, poll_interval, pc, log, muts, passes, pass_start, fs0, rerun, edited>>

\* Faulty variant: the name is not appended to the replica folder.
replica_target_unjoined(frame, name) == frame.replica_path

\* Lines 55, 56
source_target_path(frame, name) == Join(frame.source_path, name)

replica_target_path(frame, name) == Join(frame.replica_path, name)

\* Faulty variant: the error is caught around the call of synchronize and
\* main goes on as after a pass that returned.
RaiseCaught ==
    /\ pc' = "Syncing"
    /\ stack' = <<>>

\* An error of a file operation leaves synchronize and main uncaught.
Raise ==
    /\ pc' = "Failed"
    /\ stack' = <<>>

\* Lines 59-66: the source object is a directory.
SyncDir ==
    /\ pc = "Syncing"
    /\ stack # <<>>
    /\ Top.phase = "sync"
    /\ \E name \in Top.source_objects :
        LET src == source_target_path(Top, name)
            dst == replica_target_path(Top, name)
            rest == SetTop([Top EXCEPT !.source_objects = @ \ {name}])
        IN
        /\ IsDir(fs, src)
        /\ IF ~Exists(fs, dst)
              THEN /\ log' = Append(log, Event("Creating", dst))
                   /\ IF MkdirOk(fs, dst)
                         THEN /\ fs' = Mkdir(fs, dst)
                              /\ muts' = Append(muts, Mutation("mkdir", dst))
                              /\ stack' = Append(rest, Frame(src, dst))
                              /\ pc' = pc
                         ELSE /\ Raise
                              /\ UNCHANGED <<fs, muts>>
              ELSE /\ stack' = Append(rest, Frame(src, dst))
                   /\ UNCHANGED <<fs, log, muts, pc>>
    /\ UNCHANGED <<poll_interval, passes, pass_start, fs0, rerun, edited>>

\* Faulty variant: == in place of !=.
HashesAgree(source_bytes, replica_bytes) == Md5(source_bytes) = Md5(replica_bytes)

\* Line 83: source_hash != replica_hash
HashesDiffer(source_bytes, replica_bytes) == Md5(source_bytes) # Md5(replica_bytes)

\* Lines 85, 90: shutil.copy(source_target_path, replica_target_path); the
\* loop goes on with the remaining objects when it succeeds.
CopyFile(src, dst, rest) ==
    IF CopyOk(fs, src, dst)
        THEN /\ fs' = Copy(fs, src, dst)
             /\ muts' = Append(muts, Mutation("copy", CopyTarget(fs, src, dst)))
             /\ stack' = rest
             /\ pc' = pc
        ELSE /\ Raise
             /\ UNCHANGED <<fs, muts>>

\* Lines 69-90: the source object is a file.
SyncFile ==
    /\ pc = "Syncing"
    /\ stack # <<>>
    /\ Top.phase = "sync"
    /\ \E name \in Top.source_objects :
        LET src == source_target_path(Top, name)
            dst == replica_target_path(Top, name)
            rest == SetTop([Top EXCEPT !.source_objects = @ \ {name}])
        IN
        /\ ~IsDir(fs, src)
        /\ IF Exists(fs, dst)
              THEN IF ReadOk(fs, src) /\ ReadOk(fs, dst)
                      THEN IF HashesDiffer(fs[src], fs[dst])
                              THEN /\ log' = Append(log, Event("Updating", dst))
                                   /\ CopyFile(src, dst, rest)
                              ELSE /\ stack' = rest
                                   /\ UNCHANGED <<fs, log, muts, pc>>
                      ELSE /\ Raise
                           /\ UNCHANGED <<fs, log, muts>>
              ELSE /\ log' = Append(log, Event("Adding", dst))
                   /\ CopyFile(src, dst, rest)
    /\ UNCHANGED <<poll_interval, passes, pass_start, fs0, rerun, edited>>

\* Line 90 passed with the loop of line 53 exhausted: the invocation returns.
SyncReturn ==
    /\ pc = "Syncing"
    /\ stack # <<>>
    /\ Top.phase = "sync"
    /\ Top.source_objects = {}
    /\ stack' = Pop
    /\ UNCHANGED <<fs, poll_interval, pc, log, muts, passes, pass_start, fs0, rerun, edited>>

Next ==
    \/ CheckSource
    \/ CheckReplica
    \/ FirstPass
    \/ Finish
    \/ EnterSleep
    \/ Wake
    \/ SyncEnter
    \/ SyncRemove
    \/ SyncList
    \/ SyncDir
    \/ SyncFile
    \/ SyncReturn

Spec == Init /\ [][Next]_vars

\* The one thread of the program runs on as long as it has a step to take.
FairSpec == Spec /\ WF_vars(Next)

----------------------------------------------------------------------------
\* The surroundings of the program.

\* The process is interrupted from outside in the middle of a pass.
Kill ==
    /\ pc = "Syncing"
    /\ stack # <<>>
    /\ pc' = "Killed"
    /\ stack' = <<>>
    /\ UNCHANGED <<fs, poll_interval, log, muts, passes, pass_start, fs0, rerun, edited>>

\* Line 164: the program is started again, with a new log, on the folders as
\* the interrupted run left them.
Rerun ==
    /\ pc = "Killed"
    /\ pc' = "CheckSource"
    /\ log' = <<>>
    /\ muts' = <<>>
    /\ passes' = 0
    /\ pass_start' = 0
    /\ fs0' = fs
    /\ rerun' = TRUE
    /\ UNCHANGED <<fs, poll_interval, stack, edited>>

NextInterrupted == Next \/ Kill \/ Rerun

SpecInterrupted == Init /\ [][NextInterrupted]_vars

\* What another program may do to an entry below a root folder: put a file
\* or a directory at a path whose parent is a directory, in place of what is
\* there, or delete what is there.
Edits(f) ==
    {Merge(Single(q, e), RmTree(f, q)) :
        <<q, e>> \in {x \in {Join(d, n) : <<d, n>> \in (DOMAIN f) \X Names}
                            \X (Contents \cup {"dir"}) :
                         /\ IsDir(f, Parent(x[1]))
                         /\ ~(Exists(f, x[1]) /\ f[x[1]] = x[2])}}
        \cup {RmTree(f, q) : q \in {x \in DOMAIN f : Len(x) > 1}}

\* Lines 127-133: time.sleep returned and the folders were edited by another
\* program during the sleep; the next pass of the loop.
WakeChanged ==
    /\ pc = "Sleeping"
    /\ passes < MaxPasses
    /\ ~edited
    /\ fs' \in Edits(fs)
    /\ edited' = TRUE
    /\ stack' = <<Frame(source_folder, replica_folder)>>
    /\ passes' = passes + 1
    /\ pass_start' = Len(log)
    /\ fs0' = fs'
    /\ pc' = "Syncing"
    /\ UNCHANGED <<poll_interval, log, muts, rerun>>

NextEdited == Next \/ WakeChanged

SpecEdited == Init /\ [][NextEdited]_vars

----------------------------------------------------------------------------
\* Vocabulary of the properties.

\* The path below its root folder, and the same place in either folder.
Rel(path) == SubSeq(path, 2, Len(path))

InSource(rel) == source_folder \o rel

InReplica(rel) == replica_folder \o rel

\* What a root folder holds, by relative path.
TreeOf(f, root) ==
    [rel \in {Rel(q) : q \in {x \in DOMAIN f : IsUnder(x, root)}} |-> f[root \o rel]]

\* Relative paths of the entries below the roots.
RelPaths(f) == {Rel(q) : q \in {x \in DOMAIN f : Len(x) > 1}}

IsFile(f, path) == Exists(f, path) /\ ~IsDir(f, path)

MutatingEvents == {"Removing", "Creating", "Adding", "Updating"}

\* The positions in the log of the events of the current pass.
PassEvents == {i \in 1..Len(log) : i > pass_start}

EventsOf(ev, path) == {i \in PassEvents : log[i] = Event(ev, path)}

EventsAt(evs, path) == {i \in PassEvents : log[i].ev \in evs /\ log[i].path = path}

\* The mutations of the current pass.
PassMutations == {i \in 1..Len(muts) : muts[i].pass = passes}

\* The current call of synchronize from main has returned normally.
PassReturned ==
    /\ passes > 0
    /\ stack = <<>>
    /\ pc \in {"Syncing", "Done", "Sleeping"}

----------------------------------------------------------------------------
\* C1: a pass over a source directory and a replica directory that returns
\* leaves the replica with exactly the entries, kinds and file bytes of the
\* source.
Convergence ==
    (PassReturned /\ IsDir(fs0, source_folder) /\ IsDir(fs0, replica_folder))
        => TreeOf(fs, replica_folder) = TreeOf(fs, source_folder)

\* C2: a pass that starts with the replica equal to the source logs no
\* Removing, Creating, Adding or Updating event and leaves the file system as
\* it found it.
Idempotence ==
    (passes > 0 /\ TreeOf(fs0, replica_folder) = TreeOf(fs0, source_folder))
        => /\ \A i \in PassEvents : log[i].ev \notin MutatingEvents
           /\ PassMutations = {}
           /\ fs = fs0

IdempotenceWitness ==
    /\ PassReturned
    /\ TreeOf(fs0, replica_folder) = TreeOf(fs0, source_folder)
    /\ \E rel \in RelPaths(fs0) : Len(rel) = 2 /\ IsFile(fs0, InSource(rel))

\* C3: when the source root is missing or is not a directory, main stops at
\* the check of the source path: no pass is started and nothing is created,
\* removed or written.
StartupPrecondition ==
    ~IsDir(fs, source_folder)
        => /\ pc \in {"CheckSource", "Fatal"}
           /\ passes = 0
           /\ muts = <<>>

\* C4: the mutations of the replica and the Removing, Creating, Adding and
\* Updating events match one to one, in order, by kind and by path.
MutationLog == SelectSeq(log, LAMBDA e : e.ev \in MutatingEvents)

EventMatches(e, m) ==
    /\ e.path = m.path
    /\ \/ e.ev = "Removing" /\ m.op \in {"rmtree", "unlink"}
       \/ e.ev = "Creating" /\ m.op = "mkdir"
       \/ e.ev \in {"Adding", "Updating"} /\ m.op = "copy"

OneEventPerMutation ==
    /\ Len(MutationLog) = Len(muts)
    /\ \A i \in 1..Len(muts) : EventMatches(MutationLog[i], muts[i])

\* C5 as stated: a pass that returns has logged exactly one Checking event.
CheckingOncePerPass ==
    PassReturned => Cardinality({i \in PassEvents : log[i].ev = "Checking"}) = 1

\* C5 as amended: a pass that returns has logged exactly one Checking event
\* for the root pair and one for every directory of the source tree, and no
\* other.
SourceDirs == {rel \in RelPaths(fs) : IsDir(fs, InSource(rel))} \cup {<<>>}

CheckingOncePerInvocation ==
    PassReturned
        => /\ \A rel \in SourceDirs :
                Cardinality(EventsOf("Checking", InReplica(rel))) = 1
           /\ Cardinality({i \in PassEvents : log[i].ev = "Checking"})
                = Cardinality(SourceDirs)

CheckingWitness ==
    /\ PassReturned
    /\ Cardinality(SourceDirs) >= 3
    /\ \E rel \in SourceDirs : Len(rel) = 2

\* C6: an entry of a replica directory, there at the start of the pass, whose
\* name the corresponding source directory lacks, gets at most one Removing
\* event and no Creating, Adding or Updating event during the pass, and when
\* the pass returns it is gone and has exactly one Removing event.
Extraneous ==
    {rel \in RelPaths(fs0) :
        /\ Exists(fs0, InReplica(rel))
        /\ IsDir(fs0, InSource(Parent(rel)))
        /\ ~Exists(fs0, InSource(rel))}

DeletionPrecedence ==
    passes > 0 =>
        \A rel \in Extraneous :
            /\ Cardinality(EventsOf("Removing", InReplica(rel))) <= 1
            /\ EventsAt({"Creating", "Adding", "Updating"}, InReplica(rel)) = {}
            /\ PassReturned
                => /\ ~Exists(fs, InReplica(rel))
                   /\ Cardinality(EventsOf("Removing", InReplica(rel))) = 1

DeletionWitness ==
    /\ PassReturned
    /\ \E rel \in Extraneous : Len(rel) = 2
    /\ \E rel \in Extraneous : IsDir(fs0, InReplica(rel))

\* C7: a file at the same relative path on both sides whose bytes differ at
\* the start of the pass gets at most one Updating event and no Adding or
\* Removing event, and when the pass returns it has exactly one Updating event
\* and the bytes of the source file.
Changed ==
    {rel \in RelPaths(fs0) :
        /\ IsFile(fs0, InSource(rel))
        /\ IsFile(fs0, InReplica(rel))
        /\ fs0[InSource(rel)] # fs0[InReplica(rel)]}

ChangedContentUpdate ==
    passes > 0 =>
        \A rel \in Changed :
            /\ Cardinality(EventsOf("Updating", InReplica(rel))) <= 1
            /\ EventsAt({"Adding", "Removing"}, InReplica(rel)) = {}
            /\ PassReturned
                => /\ Cardinality(EventsOf("Updating", InReplica(rel))) = 1
                   /\ fs[InReplica(rel)] = fs[InSource(rel)]

ChangedWitness ==
    /\ PassReturned
    /\ Changed # {}
    /\ \E i \in PassMutations : muts[i].op # "copy"

\* C8: a file at the same relative path on both sides with the same bytes at
\* the start of the pass is named by no Removing, Adding or Updating event of
\* the pass, is the target of no mutation of the pass and keeps its bytes.
Same ==
    {rel \in RelPaths(fs0) :
        /\ IsFile(fs0, InSource(rel))
        /\ IsFile(fs0, InReplica(rel))
        /\ fs0[InSource(rel)] = fs0[InReplica(rel)]}

UnchangedContentSkip ==
    passes > 0 =>
        \A rel \in Same :
            /\ EventsAt({"Removing", "Adding", "Updating"}, InReplica(rel)) = {}
            /\ \A i \in PassMutations : muts[i].path # InReplica(rel)
            /\ IsFile(fs, InReplica(rel))
            /\ fs[InReplica(rel)] = fs0[InReplica(rel)]

UnchangedWitness ==
    /\ PassReturned
    /\ Same # {}
    /\ PassMutations # {}

\* C9: every source directory missing from the replica at the start of the
\* pass gets at most one Creating event; when the pass returns it has exactly
\* one, logged after the one of its parent when the parent was missing too,
\* every file right below it has exactly one Adding event, logged after that
\* Creating event, and the pass has logged no other Creating event.
AbsentDirs ==
    {rel \in RelPaths(fs0) :
        IsDir(fs0, InSource(rel)) /\ ~Exists(fs0, InReplica(rel))}

FilesBelow(rel) ==
    {f \in RelPaths(fs0) : Parent(f) = rel /\ IsFile(fs0, InSource(f))}

Before(earlier, later) == \A i \in earlier : \A j \in later : i < j

RecursiveDirectoryCreation ==
    passes > 0 =>
        /\ \A rel \in AbsentDirs :
            /\ Cardinality(EventsOf("Creating", InReplica(rel))) <= 1
            /\ PassReturned
                => /\ Cardinality(EventsOf("Creating", InReplica(rel))) = 1
                   /\ Parent(rel) \in AbsentDirs
                        => Before(EventsOf("Creating", InReplica(Parent(rel))),
                                  EventsOf("Creating", InReplica(rel)))
                   /\ \A f \in FilesBelow(rel) :
                        /\ Cardinality(EventsOf("Adding", InReplica(f))) = 1
                        /\ Before(EventsOf("Creating", InReplica(rel)),
                                  EventsOf("Adding", InReplica(f)))
        /\ PassReturned
            => Cardinality({i \in PassEvents : log[i].ev = "Creating"})
                   = Cardinality(AbsentDirs)

RecursiveCreationWitness ==
    /\ PassReturned
    /\ \E rel \in AbsentDirs :
        /\ Len(rel) = 2
        /\ Parent(rel) \in AbsentDirs
        /\ FilesBelow(rel) # {}

\* C10: the source folder holds what it held when the pass started, and every
\* mutation ever performed has its target under the replica root.
SourceReadOnly ==
    /\ TreeOf(fs, source_folder) = TreeOf(fs0, source_folder)
    /\ \A i \in 1..Len(muts) : IsUnder(muts[i].path, replica_folder)

SourceReadOnlyWitness ==
    /\ pc \in {"Done", "Failed", "Sleeping"}
    /\ {"mkdir", "copy"} \subseteq {muts[i].op : i \in 1..Len(muts)}
    /\ \E i \in 1..Len(muts) : muts[i].op \in {"rmtree", "unlink"}
    /\ \E rel \in RelPaths(fs) : Exists(fs, InSource(rel))

\* C11: with poll interval 0 main starts at most one pass, never sleeps and
\* logs no sleep; Done is reached only after the one pass has returned and
\* nothing happens after it; and with a source root that is a directory the
\* run comes to its end, Done or, when a file operation raised, Failed.
SleepEvents == {i \in 1..Len(log) : log[i].ev = "Entering sleep"}

SinglePassMode ==
    /\ [](poll_interval = 0
            => /\ passes <= 1
               /\ pc # "Sleeping"
               /\ SleepEvents = {}
               /\ pc = "Done" => passes = 1 /\ stack = <<>>)
    /\ [][pc = "Done" => UNCHANGED vars]_vars
    /\ (poll_interval = 0 /\ IsDir(fs, source_folder)) ~> (pc \in {"Done", "Failed"})

SinglePassWitness ==
    /\ pc = "Done"
    /\ poll_interval = 0
    /\ Len(muts) >= 2
    /\ \E i \in PassEvents : log[i].ev = "Checking" /\ Len(log[i].path) = 2

\* C12: with a poll interval above 0 main never reaches Done; a sleep event is
\* logged exactly once after every pass that returned, as the last thing
\* before the sleep, never during a pass, and every pass after the first
\* starts right after such an event.
PollingMode ==
    poll_interval # 0
        => /\ pc # "Done"
           /\ Cardinality(SleepEvents)
                = (IF pc = "Sleeping" THEN passes
                   ELSE IF passes = 0 THEN 0 ELSE passes - 1)
           /\ pc = "Sleeping" => log[Len(log)].ev = "Entering sleep"
           /\ pc # "Sleeping" => SleepEvents \cap PassEvents = {}
           /\ passes > 1 => log[pass_start].ev = "Entering sleep"

PollingWitness ==
    /\ pc = "Sleeping"
    /\ passes = 2
    /\ muts # <<>>

\* C13: a file operation that raises changes nothing in the replica, ends the
\* pass with every level of the recursion left, and nothing follows it: no
\* event, no mutation, no sleep, no further pass.
OperationFailed ==
    passes > 0 /\ Cardinality({i \in PassEvents : log[i].ev \in MutatingEvents})
        # Cardinality(PassMutations)

RemovalBeforeCreation ==
    \A i \in PassEvents : \A j \in PassEvents :
        (/\ i < j
         /\ log[i].ev \in {"Creating", "Adding", "Updating", "Checking"}
         /\ log[j].ev = "Removing")
            => Parent(log[i].path) # Parent(log[j].path)

RemovalOrderWitness ==
    /\ PassReturned
    /\ \E i \in PassEvents : \E j \in PassEvents :
        /\ i < j
        /\ log[i].ev = "Removing"
        /\ log[j].ev \in {"Creating", "Adding", "Updating"}
        /\ Parent(log[i].path) = Parent(log[j].path)

\* C15: every Removing event and every removal of a pass is for a replica
\* entry that has no entry of its name in the source, and an entry that is on
\* both sides when the pass starts is in the replica throughout the pass.
Removed ==
    {log[i].path : i \in {k \in PassEvents : log[k].ev = "Removing"}}
        \cup {muts[i].path : i \in {k \in PassMutations :
                                        muts[k].op \in {"rmtree", "unlink"}}}

OnlyExtraneousRemoved ==
    passes > 0 =>
        /\ \A path \in Removed :
            /\ IsUnder(path, replica_folder)
            /\ Exists(fs0, path)
            /\ ~Exists(fs0, InSource(Rel(path)))
        /\ \A rel \in RelPaths(fs0) :
            (Exists(fs0, InSource(rel)) /\ Exists(fs0, InReplica(rel)))
                => Exists(fs, InReplica(rel))

OnlyExtraneousWitness ==
    /\ PassReturned
    /\ Removed # {}
    /\ \E rel \in RelPaths(fs0) :
        Exists(fs0, InSource(rel)) /\ Exists(fs0, InReplica(rel))

\* C16: a run started on the folders as an interrupted pass left them, with
\* both roots directories, ends its pass with the replica equal to the source.
CrashRecovery ==
    (rerun /\ PassReturned /\ IsDir(fs0, source_folder) /\ IsDir(fs0, replica_folder))
        => TreeOf(fs, replica_folder) = TreeOf(fs, source_folder)

\* C17: a pass of the polling loop that follows a sleep during which the
\* folders were edited, started with both roots directories, ends with the
\* replica equal to the source as it then is.
PollingTracksChanges ==
    (/\ edited
     /\ passes >= 2
     /\ PassReturned
     /\ IsDir(fs0, source_folder)
     /\ IsDir(fs0, replica_folder))
        => TreeOf(fs, replica_folder) = TreeOf(fs, source_folder)

\* C18: every invocation of synchronize in progress has a source path and a
\* replica path that are both directories.
DirectoryPair ==
    \A k \in 1..Len(stack) :
        /\ IsDir(fs, stack[k].source_path)
        /\ IsDir(fs, stack[k].replica_path)

\* C19: during a pass the number of relative paths at which the two folders
\* disagree never grows from one step to the next, and it shrinks with every
\* removal, directory creation and file copy performed.
Disagree(f, rel) ==
    \/ ~Exists(f, InSource(rel))
    \/ ~Exists(f, InReplica(rel))
    \/ f[InSource(rel)] # f[InReplica(rel)]

Distance(f) == Cardinality({rel \in RelPaths(f) : Disagree(f, rel)})

MonotoneProgress ==
    [][pc = "Syncing"
        => /\ Distance(fs') <= Distance(fs)
           /\ muts' # muts => Distance(fs') < Distance(fs)]_vars

MonotoneWitness ==
    /\ PassReturned
    /\ Cardinality(PassMutations) >= 3
    /\ Distance(fs0) >= 3
    /\ Distance(fs) = 0

====
